---- MODULE Spec2Model ----
(***************************************************************************)
(* A model of plankton (src/python/plankton): the binary codec of codec.py *)
(* (varints, strings, the value encoder and decoder with their object      *)
(* index) and the stream container of container.py (OutputSocket and       *)
(* InputSocket).                                                           *)
(*                                                                         *)
(* Python integers are unbounded; the integers of the varint routines are  *)
(* therefore kept as two limbs [hi, lo] with value hi * 2^16 + lo and      *)
(* 0 <= lo < 2^16, which is Python's infinite two's complement split at    *)
(* bit 16, so that the whole range [0, 2^32) is computed exactly.          *)
(***************************************************************************)
EXTENDS Integers, Sequences, FiniteSets, TLC

VARIABLES
  \* --- the varint routines (EncodingAssembler / DataInputStream)
  vpc,        \* "start" | "written" | "read"
  vkind,      \* "uint32" | "int32": which pair of routines is exercised
  va, vb,     \* the two integers handed to the assembler (limbs)
  vbytesA,    \* EncodingAssembler.bytes after writing va
  vbytesB,    \* EncodingAssembler.bytes of a second assembler after writing vb
  vread,      \* what the reader returned for vbytesA: [ok, value, cursor]
  \* --- one Encoder.encode / Decoder.decode session
  cpc,        \* "start" | "encoded" | "decoded" | "truncated" | "foreign"
  heap,       \* the application's objects: id -> instance
  root,       \* the value handed to Encoder.encode
  root2,      \* a second value, holding the pairs of root in another order
  encName,    \* Encoder.string_codec.encoding_name
  out,        \* the DataOutputStream after Encoder.encode(root)
  out2,       \* the DataOutputStream after Encoder.encode(root2)
  inp,        \* the DataInputStream after Decoder.decode(out.bytes), or
              \* after Decoder.decode of foreign bytes
  inpCut,     \* the DataInputStream after Decoder.decode(out.bytes[:-1])
  \* --- the container: an OutputSocket, its file, and an InputSocket
  spc,        \* "writing" | "reading" | "closed"
  file,       \* the bytes written to the OutputSocket's file
  ocursor,    \* OutputSocket.cursor
  oencoding,  \* OutputSocket.default_string_encoding
  olast,      \* how the last OutputSocket call ended, and the calls so far
  sent,       \* the values passed to send_value on the root stream, in order
  rpos,       \* how far the InputSocket's file has been read
  icursor,    \* InputSocket.cursor
  iencoding,  \* InputSocket.default_encoding
  streams,    \* InputSocket.streams: stream id -> the values it received
  ilast,      \* what the last process_next_instruction returned
  \* --- a ClassRegistry
  class_to_info,  \* the classes ensure_meta_info made a ClassMetaInfo for
  nearest_cache,  \* ClassRegistry.nearest_cache: class -> class of the info
  rlast       \* the last call on the registry, what it returned, the calls

vars_varint == <<vpc, vkind, va, vb, vbytesA, vbytesB, vread>>
vars_codec == <<cpc, heap, root, root2, encName, out, out2, inp, inpCut>>
vars_socket == <<spc, file, ocursor, oencoding, olast, sent, rpos, icursor,
                 iencoding, streams, ilast>>
vars_registry == <<class_to_info, nearest_cache, rlast>>
vars == <<vars_varint, vars_codec, vars_socket, vars_registry>>

(***************************************************************************)
(* Python integers, as two limbs.                                          *)
(***************************************************************************)
BigNorm(h, l) == [hi |-> h + (l \div 65536), lo |-> l % 65536]

BigOf(n) == BigNorm(0, n)

BigFits(b) == b.hi >= -32768 /\ b.hi <= 32767

BigToInt(b) == b.hi * 65536 + b.lo

RECURSIVE Pow2(_)
Pow2(k) == IF k = 0 THEN 1 ELSE 2 * Pow2(k - 1)

\* value << k
RECURSIVE BigShl(_, _)
BigShl(b, k) ==
  IF k = 0 THEN b
  ELSE IF k >= 16 THEN BigShl([hi |-> b.hi * 65536 + b.lo, lo |-> 0], k - 16)
  ELSE BigNorm(b.hi * Pow2(k), b.lo * Pow2(k))

\* value >> k (arithmetic: rounds towards minus infinity)
RECURSIVE BigShr(_, _)
BigShr(b, k) ==
  IF k = 0 THEN b
  ELSE IF k >= 16 THEN BigShr(BigNorm(b.hi \div 65536, b.hi % 65536), k - 16)
  ELSE [hi |-> b.hi \div Pow2(k),
        lo |-> (b.lo \div Pow2(k)) + (b.hi % Pow2(k)) * Pow2(16 - k)]

RECURSIVE NatXor(_, _)
NatXor(x, y) ==
  IF x = 0 THEN y
  ELSE IF y = 0 THEN x
  ELSE ((x + y) % 2) + 2 * NatXor(x \div 2, y \div 2)

\* x ^ y on Python's two's complement integers: ~x = -x - 1
IntXor(x, y) ==
  IF x < 0 /\ y < 0 THEN NatXor(-x - 1, -y - 1)
  ELSE IF x < 0 THEN -NatXor(-x - 1, y) - 1
  ELSE IF y < 0 THEN -NatXor(x, -y - 1) - 1
  ELSE NatXor(x, y)

BigXor(a, b) == [hi |-> IntXor(a.hi, b.hi), lo |-> NatXor(a.lo, b.lo)]

BigNeg(b) == BigNorm(-b.hi, -b.lo)

BigAdd(a, b) == BigNorm(a.hi + b.hi, a.lo + b.lo)

BigGe(b, n) == b.hi > 0 \/ (b.hi = 0 /\ b.lo >= n)

BigIsNeg(b) == b.hi < 0

(***************************************************************************)
(* EncodingAssembler: the bytes of a naked unsigned and signed int32.      *)
(***************************************************************************)

\* the value carried to the next byte: (value >> 7) - 1
CarryPlain(value) == BigShr(value, 7)

Carry(value) == BigAdd(BigShr(value, 7), BigOf(-1))

\* the while loop of _encode_uint32, from a value >= 0
RECURSIVE EncodeLoop(_)
EncodeLoop(value) ==
  IF BigGe(value, 128)
    THEN <<(value.lo % 128) + 128>> \o EncodeLoop(Carry(value))
    ELSE <<BigToInt(value)>>

\* _encode_uint32: [ok, bytes]; the assert fails on a negative value
EncodeUint32(value) ==
  IF BigIsNeg(value) THEN [ok |-> FALSE, bytes |-> <<>>]
  ELSE [ok |-> TRUE, bytes |-> EncodeLoop(value)]

ZigZagNoSign(value) == BigShl(value, 1)

\* the argument int32 hands to _encode_uint32: (value << 1) ^ (value >> 31)
ZigZag(value) == BigXor(BigShl(value, 1), BigShr(value, 31))

EncodeInt32(value) == EncodeUint32(ZigZag(value))

(***************************************************************************)
(* DataInputStream: reading a naked unsigned and signed int32.  A reader   *)
(* is a record with at least the fields bytes, cursor and err.             *)
(***************************************************************************)
NoErr == "none"

\* _get_byte: [ok, byte, cursor]; indexing past the end raises IndexError
GetByteOrZero(bytes, cursor) ==
  IF cursor < Len(bytes)
    THEN [ok |-> TRUE, byte |-> bytes[cursor + 1], cursor |-> cursor + 1]
    ELSE [ok |-> TRUE, byte |-> 0, cursor |-> cursor + 1]

GetByte(bytes, cursor) ==
  IF cursor < Len(bytes)
    THEN [ok |-> TRUE, byte |-> bytes[cursor + 1], cursor |-> cursor + 1]
    ELSE [ok |-> FALSE, byte |-> 0, cursor |-> cursor]

\* the while loop of decode_uint32_from
RECURSIVE DecodeLoop(_, _, _, _, _)
DecodeLoop(bytes, cursor, next, result, offset) ==
  IF next >= 128
    THEN LET g == GetByte(bytes, cursor)
         IN IF ~g.ok
              THEN [ok |-> FALSE, value |-> result, cursor |-> g.cursor]
              ELSE DecodeLoop(bytes, g.cursor, g.byte,
                     BigAdd(result, BigShl(BigOf((g.byte % 128) + 1), offset)),
                     offset + 7)
    ELSE [ok |-> TRUE, value |-> result, cursor |-> cursor]

\* decode_uint32_from: [ok, value, cursor]
DecodeUint32From(bytes, cursor) ==
  LET g == GetByte(bytes, cursor)
  IN IF ~g.ok THEN [ok |-> FALSE, value |-> BigOf(0), cursor |-> g.cursor]
     ELSE DecodeLoop(bytes, g.cursor, g.byte, BigOf(g.byte % 128), 7)

\* the expression of _decode_int32: (value >> 1) ^ (-(value & 1))
UnZigZag(value) == BigXor(BigShr(value, 1), BigNeg(BigOf(value.lo % 2)))

\* _decode_int32: [ok, value, cursor]
DecodeInt32From(bytes, cursor) ==
  LET u == DecodeUint32From(bytes, cursor)
  IN [ok |-> u.ok, value |-> UnZigZag(u.value), cursor |-> u.cursor]

(***************************************************************************)
(* The integers the varint routines are run on: the values around each     *)
(* change of encoded length and around both ends of the range.             *)
(***************************************************************************)
VSpread == 2

Two31 == [hi |-> 32768, lo |-> 0]

Two32 == [hi |-> 65536, lo |-> 0]

BigLess(a, b) == a.hi < b.hi \/ (a.hi = b.hi /\ a.lo < b.lo)

Around(points) ==
  {BigAdd(p, BigOf(d)) : p \in points, d \in (0 - VSpread)..VSpread}

\* [0, 2^32): the lengths change at 128, 16512, 2113664 and 270549120
UintSamples ==
  {x \in Around({BigOf(0), BigOf(128), BigOf(16512), BigOf(2113664),
                 BigOf(270549120), Two31, Two32}) :
     ~BigIsNeg(x) /\ BigLess(x, Two32)}

\* [-2^31, 2^31 - 1]: the lengths change at -64 | 64 and -8256 | 8256
IntSamples ==
  {x \in Around({BigNeg(Two31), BigOf(-8256), BigOf(-64), BigOf(0), BigOf(64),
                 BigOf(8256), Two31}) :
     ~BigLess(x, BigNeg(Two31)) /\ BigLess(x, Two31)}

NoRead == [ok |-> FALSE, value |-> BigOf(0), cursor |-> 0]

NoBytes == [ok |-> FALSE, bytes |-> <<>>]

InitVarint ==
  /\ vpc = "start"
  /\ vkind \in {"uint32", "int32"}
  /\ va \in (IF vkind = "uint32" THEN UintSamples ELSE IntSamples)
  /\ vb \in (IF vkind = "uint32" THEN UintSamples ELSE {va})
  /\ vbytesA = NoBytes
  /\ vbytesB = NoBytes
  /\ vread = NoRead

IdleVarint ==
  /\ vpc = "idle"
  /\ vkind = "uint32"
  /\ va = BigOf(0)
  /\ vb = BigOf(0)
  /\ vbytesA = NoBytes
  /\ vbytesB = NoBytes
  /\ vread = NoRead

\* EncodingAssembler().uint32(va), and a second assembler for vb
Uint32Write ==
  /\ vpc = "start"
  /\ vkind = "uint32"
  /\ vbytesA' = EncodeUint32(va)
  /\ vbytesB' = EncodeUint32(vb)
  /\ vpc' = "written"
  /\ UNCHANGED <<vkind, va, vb, vread, vars_codec, vars_socket,
                 vars_registry>>

\* EncodingAssembler().int32(va)
Int32Write ==
  /\ vpc = "start"
  /\ vkind = "int32"
  /\ vbytesA' = EncodeInt32(va)
  /\ vbytesB' = EncodeInt32(vb)
  /\ vpc' = "written"
  /\ UNCHANGED <<vkind, va, vb, vread, vars_codec, vars_socket,
                 vars_registry>>

\* DataInputStream(bytes)._decode_uint32()
Uint32Read ==
  /\ vpc = "written"
  /\ vkind = "uint32"
  /\ vbytesA.ok
  /\ vread' = DecodeUint32From(vbytesA.bytes, 0)
  /\ vpc' = "read"
  /\ UNCHANGED <<vkind, va, vb, vbytesA, vbytesB, vars_codec, vars_socket,
                 vars_registry>>

\* DataInputStream(bytes)._decode_int32()
Int32Read ==
  /\ vpc = "written"
  /\ vkind = "int32"
  /\ vbytesA.ok
  /\ vread' = DecodeInt32From(vbytesA.bytes, 0)
  /\ vpc' = "read"
  /\ UNCHANGED <<vkind, va, vb, vbytesA, vbytesB, vars_codec, vars_socket,
                 vars_registry>>

NextVarint == Uint32Write \/ Int32Write \/ Uint32Read \/ Int32Read

(***************************************************************************)
(* Values.  A Python value is a record tagged by k: an int, a unicode      *)
(* string (code points), a str (bytes), a bytearray, a list, a dict (its   *)
(* pairs, in insertion order), None, a bool, or a reference to an instance *)
(* of the heap.  Absent stands for an attribute an instance does not have. *)
(***************************************************************************)
IntV(n) == [k |-> "int", n |-> n]

UStr(cps) == [k |-> "ustr", s |-> cps]

BStr(bytes) == [k |-> "bstr", s |-> bytes]

BlobV(bytes) == [k |-> "blob", s |-> bytes]

Arr(elems) == [k |-> "arr", e |-> elems]

MapV(pairs) == [k |-> "map", p |-> pairs]

NullV == [k |-> "null"]

BoolV(b) == [k |-> "bool", b |-> b]

Obj(id) == [k |-> "obj", id |-> id]

Absent == [k |-> "absent"]

_INT32_TAG == 0

_DEFAULT_STRING_TAG == 1

_ARRAY_TAG == 2

_MAP_TAG == 3

_NULL_TAG == 4

_TRUE_TAG == 5

_FALSE_TAG == 6

_OBJECT_TAG == 7

_REFERENCE_TAG == 8

_BLOB_TAG == 12

_STRING_TAG == 13

(***************************************************************************)
(* StringCodec.  codecs.encode and codecs.decode for the three registered  *)
(* encodings, on the code points below 0x10000.                            *)
(***************************************************************************)
US_ASCII == 3

SHIFT_JIS == 17

UTF_8 == 106

\* ENUM_TO_NAME[enum][0]
EnumToName == [e \in {US_ASCII, SHIFT_JIS, UTF_8} |->
                 IF e = US_ASCII THEN "US-ASCII"
                 ELSE IF e = SHIFT_JIS THEN "Shift_JIS" ELSE "UTF-8"]

EncodingNames == {"US-ASCII", "Shift_JIS", "UTF-8"}

FALLBACK_ENCODING_NAME == "UTF-8"

FALLBACK_ENCODING_ENUM == UTF_8

RECURSIVE Flatten(_)
Flatten(seqs) ==
  IF seqs = <<>> THEN <<>> ELSE Head(seqs) \o Flatten(Tail(seqs))

AllBelow(s, n) == \A i \in 1..Len(s) : s[i] < n

Utf8Of(cp) ==
  IF cp < 128 THEN <<cp>>
  ELSE IF cp < 2048 THEN <<192 + (cp \div 64), 128 + (cp % 64)>>
  ELSE <<224 + (cp \div 4096), 128 + ((cp \div 64) % 64), 128 + (cp % 64)>>

\* Shift_JIS: ASCII as itself, the halfwidth katakana U+FF61..U+FF9F as one
\* byte 0xA1..0xDF; nothing else of the code points used here is representable
SjisOk(cp) == cp < 128 \/ (cp >= 65377 /\ cp <= 65439)

SjisOf(cp) == IF cp < 128 THEN <<cp>> ELSE <<cp - 65216>>

\* codecs.encode(unicode, name): [ok, bytes]; not ok is UnicodeEncodeError
CodecsEncode(name, cps) ==
  IF name = "US-ASCII"
    THEN [ok |-> AllBelow(cps, 128), bytes |-> cps]
  ELSE IF name = "Shift_JIS"
    THEN [ok |-> \A i \in 1..Len(cps) : SjisOk(cps[i]),
          bytes |-> Flatten([i \in 1..Len(cps) |-> SjisOf(cps[i])])]
  ELSE [ok |-> TRUE, bytes |-> Flatten([i \in 1..Len(cps) |-> Utf8Of(cps[i])])]

\* the UTF-8 decoder: [ok, cps]
RECURSIVE Utf8Decode(_)
Utf8Decode(bytes) ==
  IF bytes = <<>> THEN [ok |-> TRUE, cps |-> <<>>]
  ELSE
    LET b == bytes[1]
        n == IF b < 128 THEN 1
             ELSE IF b >= 192 /\ b < 224 THEN 2
             ELSE IF b >= 224 /\ b < 240 THEN 3 ELSE 0
        wellFormed == /\ n > 0
                      /\ Len(bytes) >= n
                      /\ \A i \in 2..n : bytes[i] >= 128 /\ bytes[i] < 192
        cp == IF n = 1 THEN b
              ELSE IF n = 2 THEN (b - 192) * 64 + (bytes[2] - 128)
              ELSE (b - 224) * 4096 + (bytes[2] - 128) * 64 + (bytes[3] - 128)
        \* overlong forms and surrogates are rejected
        minimal == (n = 1) \/ (n = 2 /\ cp >= 128)
                   \/ (n = 3 /\ cp >= 2048 /\ ~(cp >= 55296 /\ cp < 57344))
    IN IF ~wellFormed \/ ~minimal THEN [ok |-> FALSE, cps |-> <<>>]
       ELSE LET rest == Utf8Decode(SubSeq(bytes, n + 1, Len(bytes)))
            IN [ok |-> rest.ok, cps |-> <<cp>> \o rest.cps]

\* codecs.decode(bytes, name): [ok, cps]; not ok is UnicodeDecodeError
CodecsDecode(name, bytes) ==
  IF name = "US-ASCII"
    THEN [ok |-> AllBelow(bytes, 128), cps |-> bytes]
  ELSE IF name = "Shift_JIS"
    THEN [ok |-> \A i \in 1..Len(bytes) :
                   bytes[i] < 128 \/ (bytes[i] >= 161 /\ bytes[i] <= 223),
          cps |-> [i \in 1..Len(bytes) |->
                     IF bytes[i] < 128 THEN bytes[i] ELSE bytes[i] + 65216]]
  ELSE Utf8Decode(bytes)

\* StringCodec.encode with the fallback bytes returned as if they were in
\* the default encoding
StringCodecEncodeUnmarked(name, v) ==
  IF v.k = "bstr"
    THEN [ok |-> AllBelow(v.s, 128), bytes |-> v.s, explicit |-> FALSE,
          encoding |-> 0]
  ELSE IF CodecsEncode(name, v.s).ok
    THEN [ok |-> TRUE, bytes |-> CodecsEncode(name, v.s).bytes,
          explicit |-> FALSE, encoding |-> 0]
  ELSE [ok |-> TRUE, bytes |-> CodecsEncode(FALLBACK_ENCODING_NAME, v.s).bytes,
        explicit |-> FALSE, encoding |-> 0]

\* StringCodec.encode of a unicode or a str: [ok, bytes, explicit, encoding],
\* where explicit = FALSE is the encoding None.  A str is first decoded as
\* ASCII by codecs.encode, which raises UnicodeDecodeError (not caught) on a
\* byte >= 0x80.
StringCodecEncode(name, v) ==
  IF v.k = "bstr"
    THEN [ok |-> AllBelow(v.s, 128), bytes |-> v.s, explicit |-> FALSE,
          encoding |-> 0]
  ELSE IF CodecsEncode(name, v.s).ok
    THEN [ok |-> TRUE, bytes |-> CodecsEncode(name, v.s).bytes,
          explicit |-> FALSE, encoding |-> 0]
  ELSE [ok |-> TRUE, bytes |-> CodecsEncode(FALLBACK_ENCODING_NAME, v.s).bytes,
        explicit |-> TRUE, encoding |-> FALLBACK_ENCODING_ENUM]

\* StringCodec.decode(bytes, encoding) with an explicit encoding enum:
\* [ok, value]; an unknown enum is a KeyError
StringCodecDecode(bytes, encoding) ==
  IF encoding \notin DOMAIN EnumToName THEN [ok |-> FALSE, value |-> NullV]
  ELSE LET d == CodecsDecode(EnumToName[encoding], bytes)
       IN [ok |-> d.ok, value |-> UStr(d.cps)]

(***************************************************************************)
(* The class registry as the encoder and the decoder see it.  An instance  *)
(* of the heap is [cls, header, payload, attrs, repl]: its class, its      *)
(* attributes header and payload (DefaultObject's), its other attributes   *)
(* (pairs of a name, as the bytes of a str, and a value), and what the     *)
(* replacer of its class returns for it.  A meta info is [header_getter,   *)
(* default_header, payload_getter, fields, replacer]: what analyze() found *)
(* on the class.                                                           *)
(***************************************************************************)
NameX == <<120>>

NameY == <<121>>

HeaderPoint == BStr(<<80>>)

HeaderProxy == BStr(<<81>>)

\* @serializable class DefaultObject: @header get_header, @payload get_payload
DefaultObjectInfo ==
  [header_getter |-> TRUE, default_header |-> Absent, payload_getter |-> TRUE,
   fields |-> <<>>, replacer |-> FALSE]

\* a class registered as @serializable("P") with @field("x") and @field("y")
PointInfo ==
  [header_getter |-> FALSE, default_header |-> HeaderPoint,
   payload_getter |-> FALSE, fields |-> <<NameX, NameY>>, replacer |-> FALSE]

\* a class registered as @serializable("Q") with @field("x") and a @replacement
ProxyInfo ==
  [header_getter |-> FALSE, default_header |-> HeaderProxy,
   payload_getter |-> FALSE, fields |-> <<NameX>>, replacer |-> TRUE]

\* _CLASS_REGISTRY.class_to_info; the class "Plain" is not registered
ClassToInfo ==
  [c \in {"DefaultObject", "Point", "Proxy"} |->
     IF c = "DefaultObject" THEN DefaultObjectInfo
     ELSE IF c = "Point" THEN PointInfo ELSE ProxyInfo]

\* getattr(instance, name): Absent raises AttributeError
GetAttr(inst, name) ==
  IF \E i \in 1..Len(inst.attrs) : inst.attrs[i][1] = name
    THEN inst.attrs[CHOOSE i \in 1..Len(inst.attrs) : inst.attrs[i][1] = name][2]
    ELSE Absent

\* ClassMetaInfo.get_header(value)
GetHeader(info, inst) ==
  IF info.header_getter THEN inst.header
  ELSE IF info.default_header = Absent THEN NullV ELSE info.default_header

\* ClassMetaInfo.get_payload(value): the payload getter's result, or the dict
\* of the class's fields read from the value (get_default_payload)
GetPayload(info, inst) ==
  IF info.payload_getter THEN inst.payload
  ELSE IF \E i \in 1..Len(info.fields) : GetAttr(inst, info.fields[i]) = Absent
    THEN Absent
  ELSE MapV([i \in 1..Len(info.fields) |->
               <<BStr(info.fields[i]), GetAttr(inst, info.fields[i])>>])

\* ClassMetaInfo.get_replacement(value)
GetReplacement(info, self, inst) ==
  IF info.replacer THEN inst.repl ELSE self

(***************************************************************************)
(* Python 2's ordering of the values used as dict keys, as sorted() sees   *)
(* it: None first, then the numbers (bools among them), then the other     *)
(* types; strings by their characters, instances by identity.              *)
(***************************************************************************)
KeyRank(v) ==
  IF v.k = "null" THEN 0
  ELSE IF v.k \in {"int", "bool"} THEN 1
  ELSE IF v.k = "obj" THEN 2 ELSE 3

KeyNum(v) == IF v.k = "int" THEN v.n ELSE IF v.b THEN 1 ELSE 0

RECURSIVE SeqLess(_, _)
SeqLess(s, t) ==
  IF t = <<>> THEN FALSE
  ELSE IF s = <<>> THEN TRUE
  ELSE IF s[1] # t[1] THEN s[1] < t[1]
  ELSE SeqLess(Tail(s), Tail(t))

KeyLess(a, b) ==
  IF KeyRank(a) # KeyRank(b) THEN KeyRank(a) < KeyRank(b)
  ELSE IF KeyRank(a) = 1 THEN KeyNum(a) < KeyNum(b)
  ELSE IF KeyRank(a) = 2 THEN a.id < b.id
  ELSE IF KeyRank(a) = 3 THEN SeqLess(a.s, b.s)
  ELSE FALSE

\* one step of the sort: pair x put in its place in the sorted pairs
RECURSIVE InsertPair(_, _)
InsertPair(x, sorted) ==
  IF sorted = <<>> THEN <<x>>
  ELSE IF KeyLess(x[1], sorted[1][1]) THEN <<x>> \o sorted
  ELSE <<sorted[1]>> \o InsertPair(x, Tail(sorted))

RECURSIVE SortedPairs(_)
SortedPairs(pairs) ==
  IF pairs = <<>> THEN <<>>
  ELSE InsertPair(pairs[Len(pairs)], SortedPairs(SubSeq(pairs, 1, Len(pairs) - 1)))

\* the order visit_map and visit_object emit pairs in: sorted(value.keys())
UnsortedKeys(pairs) == pairs

EmitOrder(pairs) == SortedPairs(pairs)

(***************************************************************************)
(* DataOutputStream.  The stream is [bytes, index, offset, err, log]:      *)
(* the assembler's bytes, object_index (instance -> offset, -1 while the   *)
(* header is being written), object_offset, the exception that ended the   *)
(* call (NoErr when none), and a history, which the code does not keep, of *)
(* the objects and references emitted: for an object (t = 7) the instance  *)
(* id, the offset acquired (at, rec), the field count n and the header and *)
(* fields written; for a reference (t = 8) the instance id, object_offset  *)
(* (at), the offset written (n) and object_index[obj] (rec).               *)
(***************************************************************************)
\* a stream that starts with the object index and the offset counter an
\* earlier call, which emitted instance 1, left behind
NewOutputKept ==
  [bytes |-> <<>>, index |-> [x \in {1} |-> 0], offset |-> 1, err |-> NoErr,
   log |-> <<>>]

NewOutput ==
  [bytes |-> <<>>, index |-> [x \in {} |-> 0], offset |-> 0, err |-> NoErr,
   log |-> <<>>]

Raise(st, e) == [st EXCEPT !.err = e]

AddByte(st, b) == [st EXCEPT !.bytes = Append(@, b)]

AddBlob(st, bytes) == [st EXCEPT !.bytes = @ \o bytes]

\* EncodingAssembler.uint32
AddUint32(st, n) ==
  LET e == EncodeUint32(BigOf(n))
  IN IF e.ok THEN AddBlob(st, e.bytes) ELSE Raise(st, "AssertionError")

\* EncodingAssembler.int32
AddInt32(st, n) ==
  LET e == EncodeInt32(BigOf(n))
  IN IF e.ok THEN AddBlob(st, e.bytes) ELSE Raise(st, "AssertionError")

SetIndex(st, id, v) ==
  [st EXCEPT !.index = [x \in (DOMAIN @) \cup {id} |-> IF x = id THEN v ELSE @[x]]]

\* visit_string
VisitString(enc, v, st) ==
  LET r == StringCodecEncode(enc, v)
  IN IF ~r.ok THEN Raise(st, "UnicodeDecodeError")
     ELSE LET tagged == IF r.explicit
                          THEN AddUint32(AddByte(st, _STRING_TAG), r.encoding)
                          ELSE AddByte(st, _DEFAULT_STRING_TAG)
          IN AddBlob(AddUint32(tagged, Len(r.bytes)), r.bytes)

\* the while loop of visit_object: the class whose meta info is used, found by
\* following replacements to a fixpoint; a replacement chain that never
\* reaches one keeps the loop running for ever ("diverges")
RECURSIVE ResolveReplacement(_, _, _)
ResolveReplacement(h, last, fuel) ==
  IF last.k # "obj" THEN [err |-> "Exception", last |-> last]
  ELSE IF h[last.id].cls \notin DOMAIN ClassToInfo
    THEN [err |-> "Exception", last |-> last]
  ELSE LET replacement ==
             GetReplacement(ClassToInfo[h[last.id].cls], last, h[last.id])
       IN IF replacement = last THEN [err |-> NoErr, last |-> last]
          ELSE IF fuel = 0 THEN [err |-> "diverges", last |-> last]
          ELSE ResolveReplacement(h, replacement, fuel - 1)

\* the instance visit_object hands to get_header and get_payload
Subject(obj, last_obj) == obj

\* the offset written after _REFERENCE_TAG
BackOffset(object_offset, recorded) == object_offset - recorded - 1

RECURSIVE WriteObject(_, _, _, _)
RECURSIVE WriteArray(_, _, _, _, _)
RECURSIVE WritePairs(_, _, _, _, _)
RECURSIVE VisitObject(_, _, _, _)

\* visit_data on a DataOutputStream
WriteObject(h, enc, v, st) ==
  IF st.err # NoErr THEN st
  ELSE IF v.k = "int" THEN AddInt32(AddByte(st, _INT32_TAG), v.n)
  ELSE IF v.k \in {"ustr", "bstr"} THEN VisitString(enc, v, st)
  ELSE IF v.k = "arr"
    THEN WriteArray(h, enc, v.e, 1, AddUint32(AddByte(st, _ARRAY_TAG), Len(v.e)))
  ELSE IF v.k = "map"
    THEN WritePairs(h, enc, EmitOrder(v.p), 1,
                    AddUint32(AddByte(st, _MAP_TAG), Len(v.p)))
  ELSE IF v.k = "blob"
    THEN AddBlob(AddUint32(AddByte(st, _BLOB_TAG), Len(v.s)), v.s)
  ELSE IF v.k = "null" THEN AddByte(st, _NULL_TAG)
  ELSE IF v.k = "bool" THEN AddByte(st, IF v.b THEN _TRUE_TAG ELSE _FALSE_TAG)
  ELSE VisitObject(h, enc, v.id, st)

\* the loop of visit_array, from element i
WriteArray(h, enc, elems, i, st) ==
  IF st.err # NoErr \/ i > Len(elems) THEN st
  ELSE WriteArray(h, enc, elems, i + 1, WriteObject(h, enc, elems[i], st))

\* the loop of visit_map and of visit_object's fields, from pair i
WritePairs(h, enc, pairs, i, st) ==
  IF st.err # NoErr \/ i > Len(pairs) THEN st
  ELSE WritePairs(h, enc, pairs, i + 1,
         WriteObject(h, enc, pairs[i][2], WriteObject(h, enc, pairs[i][1], st)))

\* visit_object
VisitObject(h, enc, id, st) ==
  IF id \in DOMAIN st.index
    THEN LET offset == BackOffset(st.offset, st.index[id])
             logged == [st EXCEPT !.log = Append(@,
                          [t |-> _REFERENCE_TAG, id |-> id, at |-> st.offset,
                           n |-> offset, rec |-> st.index[id],
                           header |-> Absent, fields |-> Absent])]
         IN AddUint32(AddByte(logged, _REFERENCE_TAG), offset)
  ELSE
    LET r == ResolveReplacement(h, Obj(id), Cardinality(DOMAIN h))
    IN IF r.err # NoErr THEN Raise(st, r.err)
       ELSE
         LET meta_info == ClassToInfo[h[r.last.id].cls]
             index == st.offset
             acquired == [st EXCEPT !.offset = @ + 1]
             subject == h[Subject(Obj(id), r.last).id]
             header == GetHeader(meta_info, subject)
             fields == GetPayload(meta_info, subject)
         IN IF header = Absent \/ fields = Absent
              THEN Raise(acquired, "AttributeError")
            ELSE IF fields.k # "map" THEN Raise(acquired, "TypeError")
            ELSE
              LET logged == [acquired EXCEPT !.log = Append(@,
                               [t |-> _OBJECT_TAG, id |-> id, at |-> index,
                                n |-> Len(fields.p), rec |-> index,
                                header |-> header, fields |-> fields])]
                  counted == AddUint32(AddByte(logged, _OBJECT_TAG), Len(fields.p))
                  opened == SetIndex(counted, id, -1)
                  headed == WriteObject(h, enc, header, opened)
              IN IF headed.err # NoErr THEN headed
                 ELSE WritePairs(h, enc, EmitOrder(fields.p), 1,
                                 SetIndex(headed, id, index))

\* Encoder.encode(obj): the stream after write_object
EncoderEncode(h, enc, v) == WriteObject(h, enc, v, NewOutput)

(***************************************************************************)
(* DataInputStream.  The stream is [bytes, cursor, index, offset, heap,    *)
(* err, val, log]: object_index maps a slot to TRUE once the instance is   *)
(* stored there and to FALSE while it holds None; the instance decoded for *)
(* slot s is heap[s], and Obj(s) refers to it; val is what the last        *)
(* read_object returned; log is a history, which the code does not keep,   *)
(* of the objects (t = 7) and references (t = 8) read: the slot, the       *)
(* object_offset (at), the number read (n) and whether an instance came of *)
(* it (inst).  The configuration is [default_object, string_codec], either *)
(* of which may be "None".                                                 *)
(***************************************************************************)
NewInput(bytes) ==
  [bytes |-> bytes, cursor |-> 0, index |-> [x \in {} |-> FALSE], offset |-> 0,
   heap |-> [x \in {} |-> Absent], err |-> NoErr, val |-> Absent, log |-> <<>>]

\* Decoder(): DefaultObject and StringCodec.default()
DecoderConfig == [default_object |-> "DefaultObject", string_codec |-> "UTF-8"]

\* DataInputStream(block, None, None), as the container builds it
BlockConfig == [default_object |-> "None", string_codec |-> "None"]

Return(st, v) == [st EXCEPT !.val = v]

\* _get_byte on the stream: [st, byte]
StreamByte(st) ==
  LET g == GetByte(st.bytes, st.cursor)
  IN [st |-> [st EXCEPT !.cursor = g.cursor,
                        !.err = IF g.ok THEN NoErr ELSE "IndexError"],
      byte |-> g.byte]

\* _decode_uint32 on the stream: [st, n]; a number of 2^30 or more, which no
\* buffer of the model holds as many bytes or values as, is kept as 2^30
StreamUint32(st) ==
  LET u == DecodeUint32From(st.bytes, st.cursor)
  IN [st |-> [st EXCEPT !.cursor = u.cursor,
                        !.err = IF u.ok THEN NoErr ELSE "IndexError"],
      n |-> IF BigGe(u.value, 1073741824) THEN 1073741824 ELSE BigToInt(u.value)]

\* the loop "for i in xrange(0, length): bytes.append(self._get_byte())"
StreamBytes(st, length) ==
  IF st.cursor + length > Len(st.bytes)
    THEN [st |-> [st EXCEPT !.cursor = Len(st.bytes), !.err = "IndexError"],
          bytes |-> <<>>]
    ELSE [st |-> [st EXCEPT !.cursor = @ + length],
          bytes |-> SubSeq(st.bytes, st.cursor + 1, st.cursor + length)]

\* a list, a dict and a bytearray cannot be keys of a dict
Hashable(v) == v.k \notin {"arr", "map", "blob"}

\* == on two hashable values, as a dict compares its keys
PyKeyEq(a, b) ==
  IF a.k \in {"int", "bool"} /\ b.k \in {"int", "bool"} THEN KeyNum(a) = KeyNum(b)
  ELSE IF a.k \in {"ustr", "bstr"} /\ b.k \in {"ustr", "bstr"}
    THEN a.s = b.s /\ (a.k = b.k \/ AllBelow(a.s, 128))
  ELSE a = b

\* result[k] = v
DictSet(pairs, key, v) ==
  IF \E i \in 1..Len(pairs) : PyKeyEq(pairs[i][1], key)
    THEN [i \in 1..Len(pairs) |->
            IF PyKeyEq(pairs[i][1], key) THEN <<pairs[i][1], v>> ELSE pairs[i]]
    ELSE Append(pairs, <<key, v>>)

\* ClassRegistry.get_meta_info_by_header(header), for a hashable header: the
\* classes whose default header is the header (at most one is registered)
ClassesByHeader(header) ==
  {c \in DOMAIN ClassToInfo :
     /\ ClassToInfo[c].default_header # Absent
     /\ PyKeyEq(ClassToInfo[c].default_header, header)}

\* the slot a reference names: object_offset - offset - 1
ReferredSlot(object_offset, offset) == object_offset - offset - 1

RECURSIVE ReadObject(_, _)
RECURSIVE ReadArray(_, _, _, _)
RECURSIVE ReadMapContents(_, _, _, _)
RECURSIVE DecodeObject(_, _)

\* the value _decode_int32 makes of what _decode_uint32 read
DecodedInt32(st, d) ==
  IF ~d.ok THEN [st EXCEPT !.cursor = d.cursor, !.err = "IndexError"]
  ELSE IF ~BigFits(d.value) THEN [st EXCEPT !.cursor = d.cursor, !.err = "beyond int32"]
  ELSE Return([st EXCEPT !.cursor = d.cursor], IntV(BigToInt(d.value)))

\* _decode_int32
DecodeInt32(st) == DecodedInt32(st, DecodeInt32From(st.bytes, st.cursor))

\* the bytes behind a length that has been read: [st, bytes]
StreamBlockOf(length) ==
  IF length.st.err # NoErr THEN [st |-> length.st, bytes |-> <<>>]
  ELSE StreamBytes(length.st, length.n)

\* "length = self._decode_uint32()" and the loop that reads the bytes
StreamBlock(st) == StreamBlockOf(StreamUint32(st))

\* the value the bytes are returned as: k is "bstr" for str(bytes) and "blob"
\* for the bytearray itself
ReturnBytes(body, k) ==
  IF body.st.err # NoErr THEN body.st
  ELSE Return(body.st, [k |-> k, s |-> body.bytes])

\* _decode_default_string: str(bytes)
DecodeDefaultString(st) == ReturnBytes(StreamBlock(st), "bstr")

\* _decode_blob
DecodeBlob(st) == ReturnBytes(StreamBlock(st), "blob")

\* what self.string_codec.decode(bytes, encoding) returned
ReturnDecoded(st, decoded) ==
  IF ~decoded.ok THEN Raise(st, "UnicodeDecodeError")
  ELSE Return(st, decoded.value)

\* _decode_string, from the call of self.string_codec.decode on
DecodeStringBody(cfg, encoding, body) ==
  IF body.st.err # NoErr THEN body.st
  ELSE IF cfg.string_codec = "None" THEN Raise(body.st, "AttributeError")
  ELSE ReturnDecoded(body.st, StringCodecDecode(body.bytes, encoding))

\* _decode_string, from "length = self._decode_uint32()" on
DecodeStringIn(cfg, encoding) ==
  IF encoding.st.err # NoErr THEN encoding.st
  ELSE DecodeStringBody(cfg, encoding.n, StreamBlock(encoding.st))

\* _decode_string
DecodeString(cfg, st) == DecodeStringIn(cfg, StreamUint32(st))

\* result.append(self.read_object()), and the rest of the loop
ReadArrayNext(cfg, n, acc, e) == ReadArray(cfg, n - 1, Append(acc, e.val), e)

\* _decode_array's loop: n elements still to read, acc read so far
ReadArray(cfg, n, acc, st) ==
  IF st.err # NoErr THEN st
  ELSE IF n = 0 THEN Return(st, Arr(acc))
  ELSE ReadArrayNext(cfg, n, acc, ReadObject(cfg, st))

\* _decode_array and _decode_map, from the length on; k is "arr" or "map"
DecodeLength(cfg, k, length) ==
  IF length.st.err # NoErr THEN length.st
  ELSE IF k = "arr" THEN ReadArray(cfg, length.n, <<>>, length.st)
  ELSE ReadMapContents(cfg, length.n, <<>>, length.st)

\* _decode_array
DecodeArray(cfg, st) == DecodeLength(cfg, "arr", StreamUint32(st))

\* _decode_map
DecodeMap(cfg, st) == DecodeLength(cfg, "map", StreamUint32(st))

\* result[k] = v, and the rest of the loop: a key that cannot be hashed
\* makes the assignment raise
ReadMapSet(cfg, n, acc, k, v) ==
  IF v.err # NoErr THEN v
  ELSE IF ~Hashable(k) THEN Raise(v, "TypeError")
  ELSE ReadMapContents(cfg, n - 1, DictSet(acc, k, v.val), v)

\* v = self.read_object()
ReadMapValue(cfg, n, acc, key) ==
  IF key.err # NoErr THEN key
  ELSE ReadMapSet(cfg, n, acc, key.val, ReadObject(cfg, key))

\* _decode_map_contents: n pairs still to read, acc the dict so far
ReadMapContents(cfg, n, acc, st) ==
  IF st.err # NoErr THEN st
  ELSE IF n = 0 THEN Return(st, MapV(acc))
  ELSE ReadMapValue(cfg, n, acc, ReadObject(cfg, st))

\* grab_index and "self.object_index[index] = None"
GrabIndex(st, fieldc) ==
  [st EXCEPT !.offset = @ + 1,
             !.index = [x \in (DOMAIN @) \cup {st.offset} |->
                          IF x = st.offset THEN FALSE ELSE @[x]],
             !.log = Append(@, [t |-> _OBJECT_TAG, slot |-> st.offset,
                                at |-> st.offset, n |-> fieldc, inst |-> TRUE])]

\* new_empty_instance(header) of the class found, or default_object(header)
NewInstance(cfg, header, found) ==
  IF found = {}
    THEN [cls |-> cfg.default_object, header |-> header, payload |-> NullV,
          attrs |-> <<>>, repl |-> Absent]
    ELSE [cls |-> CHOOSE c \in found : TRUE, header |-> Absent,
          payload |-> Absent, attrs |-> <<>>, repl |-> Absent]

\* self.object_index[index] = instance
StoreInstance(st, index, instance) ==
  [st EXCEPT !.index = [@ EXCEPT ![index] = TRUE],
             !.heap = [x \in (DOMAIN @) \cup {index} |->
                         IF x = index THEN instance ELSE @[x]]]

\* the names set_instance_contents can hand to setattr
AttrNames(payload) ==
  \A i \in 1..Len(payload) :
    \/ payload[i][1].k = "bstr"
    \/ payload[i][1].k = "ustr" /\ AllBelow(payload[i][1].s, 128)

\* _decode_object, from the payload on: instance.set_contents(payload), or
\* set_instance_contents with its setattr(instance, name, value)
SetContents(index, found, filled) ==
  IF filled.err # NoErr THEN filled
  ELSE IF found = {}
    THEN Return([filled EXCEPT !.heap[index].payload = MapV(filled.val.p)],
                Obj(index))
  ELSE IF ~AttrNames(filled.val.p) THEN Raise(filled, "TypeError")
  ELSE Return([filled EXCEPT !.heap[index].attrs =
                 [i \in 1..Len(filled.val.p) |->
                    <<filled.val.p[i][1].s, filled.val.p[i][2]>>]],
              Obj(index))

\* _decode_object, from the instance on; calling a default_object that is
\* None raises
DecodeInstance(cfg, fieldc, index, headed, found) ==
  IF found = {} /\ cfg.default_object = "None" THEN Raise(headed, "TypeError")
  ELSE SetContents(index, found,
         ReadMapContents(cfg, fieldc, <<>>,
           StoreInstance(headed, index, NewInstance(cfg, headed.val, found))))

\* _decode_object, from get_meta_info_by_header on; a header that cannot be
\* hashed makes the lookup raise
DecodeHeaded(cfg, fieldc, index, headed) ==
  IF headed.err # NoErr THEN headed
  ELSE IF ~Hashable(headed.val) THEN Raise(headed, "TypeError")
  ELSE DecodeInstance(cfg, fieldc, index, headed, ClassesByHeader(headed.val))

\* _decode_object, from grab_index on
DecodeFields(cfg, fieldc) ==
  IF fieldc.st.err # NoErr THEN fieldc.st
  ELSE DecodeHeaded(cfg, fieldc.n, fieldc.st.offset,
                    ReadObject(cfg, GrabIndex(fieldc.st, fieldc.n)))

\* _decode_object
DecodeObject(cfg, st) == DecodeFields(cfg, StreamUint32(st))

\* return self.object_index[index]: the instance, None while the slot is
\* reserved, KeyError when there is no such slot
ReturnSlot(st, index) ==
  IF index \notin DOMAIN st.index THEN Raise(st, "KeyError")
  ELSE IF st.index[index] THEN Return(st, Obj(index))
  ELSE Return(st, NullV)

\* _decode_reference, from the index on
DecodeOffset(st, offset, index) ==
  IF offset.st.err # NoErr THEN offset.st
  ELSE ReturnSlot([offset.st EXCEPT !.log = Append(@,
                     [t |-> _REFERENCE_TAG, slot |-> index, at |-> st.offset,
                      n |-> offset.n,
                      inst |-> index \in DOMAIN st.index /\ st.index[index]])],
                  index)

\* the offset _decode_reference read, and the slot it names
DecodeReferred(st, offset) ==
  DecodeOffset(st, offset, ReferredSlot(st.offset, offset.n))

\* _decode_reference
DecodeReference(st) == DecodeReferred(st, StreamUint32(st))

\* read_object, from the tag on
ReadTagged(cfg, t) ==
  IF t.st.err # NoErr THEN t.st
  ELSE IF t.byte = _INT32_TAG THEN DecodeInt32(t.st)
  ELSE IF t.byte = _DEFAULT_STRING_TAG THEN DecodeDefaultString(t.st)
  ELSE IF t.byte = _STRING_TAG THEN DecodeString(cfg, t.st)
  ELSE IF t.byte = _ARRAY_TAG THEN DecodeArray(cfg, t.st)
  ELSE IF t.byte = _MAP_TAG THEN DecodeMap(cfg, t.st)
  ELSE IF t.byte = _NULL_TAG THEN Return(t.st, NullV)
  ELSE IF t.byte = _TRUE_TAG THEN Return(t.st, BoolV(TRUE))
  ELSE IF t.byte = _FALSE_TAG THEN Return(t.st, BoolV(FALSE))
  ELSE IF t.byte = _OBJECT_TAG THEN DecodeObject(cfg, t.st)
  ELSE IF t.byte = _REFERENCE_TAG THEN DecodeReference(t.st)
  ELSE IF t.byte = _BLOB_TAG THEN DecodeBlob(t.st)
  ELSE Raise(t.st, "Exception")

\* read_object
ReadObject(cfg, st) ==
  IF st.err # NoErr THEN st ELSE ReadTagged(cfg, StreamByte(st))

\* Decoder.decode(data): the stream after read_object
DecoderDecode(cfg, bytes) == ReadObject(cfg, NewInput(bytes))

(***************************************************************************)
(* Structural equality of a value over one heap and a value over another:  *)
(* Python's == on the primitives (a str equals a unicode when it is ASCII  *)
(* and has the same characters), element by element on lists, pair by pair *)
(* on dicts, and class, header, payload and attributes on instances.       *)
(***************************************************************************)
RECURSIVE ValEq(_, _, _, _, _)
ValEq(h1, a, h2, b, fuel) ==
  IF a.k \in {"ustr", "bstr"}
    THEN b.k \in {"ustr", "bstr"} /\ a.s = b.s /\ (a.k = b.k \/ AllBelow(a.s, 128))
  ELSE IF a.k # b.k THEN FALSE
  ELSE IF a.k = "arr"
    THEN /\ Len(a.e) = Len(b.e)
         /\ \A i \in 1..Len(a.e) : ValEq(h1, a.e[i], h2, b.e[i], fuel)
  ELSE IF a.k = "map"
    THEN /\ Len(a.p) = Len(b.p)
         /\ \A i \in 1..Len(a.p) : \E j \in 1..Len(b.p) :
              /\ ValEq(h1, a.p[i][1], h2, b.p[j][1], fuel)
              /\ ValEq(h1, a.p[i][2], h2, b.p[j][2], fuel)
  ELSE IF a.k = "obj"
    THEN \/ fuel = 0
         \/ LET x == h1[a.id]
                y == h2[b.id]
            IN /\ x.cls = y.cls
               /\ ValEq(h1, x.header, h2, y.header, fuel - 1)
               /\ ValEq(h1, x.payload, h2, y.payload, fuel - 1)
               /\ Len(x.attrs) = Len(y.attrs)
               /\ \A i \in 1..Len(x.attrs) : \E j \in 1..Len(y.attrs) :
                    /\ x.attrs[i][1] = y.attrs[j][1]
                    /\ ValEq(h1, x.attrs[i][2], h2, y.attrs[j][2], fuel - 1)
  ELSE a = b

\* the instances a value refers to directly
RECURSIVE RefsOf(_)
RefsOf(v) ==
  IF v.k = "obj" THEN {v.id}
  ELSE IF v.k = "arr" THEN UNION {RefsOf(v.e[i]) : i \in 1..Len(v.e)}
  ELSE IF v.k = "map"
    THEN UNION {RefsOf(v.p[i][1]) \cup RefsOf(v.p[i][2]) : i \in 1..Len(v.p)}
  ELSE {}

\* the instances an instance refers to through its header, payload, attributes
\* and replacement
InstanceRefs(inst) ==
  RefsOf(inst.header) \cup RefsOf(inst.payload) \cup RefsOf(inst.repl)
    \cup UNION {RefsOf(inst.attrs[i][2]) : i \in 1..Len(inst.attrs)}

RECURSIVE ReachFrom(_, _, _)
ReachFrom(h, ids, fuel) ==
  LET more == ids \cup UNION {InstanceRefs(h[i]) : i \in ids}
  IN IF fuel = 0 \/ more = ids THEN ids ELSE ReachFrom(h, more, fuel - 1)

\* the instances reachable from a value
Reachable(h, v) == ReachFrom(h, RefsOf(v), Cardinality(DOMAIN h))

\* no instance reachable from v reaches itself
Acyclic(h, v) ==
  \A i \in Reachable(h, v) :
    i \notin ReachFrom(h, InstanceRefs(h[i]), Cardinality(DOMAIN h))

(***************************************************************************)
(* The values one Encoder.encode call is run on.                           *)
(***************************************************************************)
MaxObjs == 3

MaxDepth == 1

StrA == BStr(<<97>>)

KeyX == BStr(NameX)

KeyY == BStr(NameY)

Atoms ==
  {IntV(0), IntV(-1), IntV(64), IntV(-8257), IntV(2147483647),
   IntV(-2147483647 - 1),
   UStr(<<>>), UStr(<<97, 98>>), UStr(<<233>>), UStr(<<97, 65411>>), StrA,
   BlobV(<<>>), BlobV(<<0, 255>>), NullV, BoolV(TRUE), BoolV(FALSE)}

SmallAtoms == {IntV(-1), UStr(<<97, 65411>>), NullV, StrA}

MapKeys == {IntV(2), IntV(-1), KeyX, UStr(<<98>>)}

\* lists and dicts over a set of values
Containers(S) ==
  {Arr(<<>>), MapV(<<>>)}
    \cup {Arr(<<x>>) : x \in S}
    \cup {Arr(<<x, y>>) : x \in S, y \in SmallAtoms}
    \cup {MapV(<<<<key, x>>>>) : key \in MapKeys, x \in S}
    \cup {MapV(<<<<kk[1], x>>, <<kk[2], IntV(0)>>>>) :
            kk \in {q \in MapKeys \X MapKeys : q[1] # q[2]}, x \in SmallAtoms}
    \cup {MapV(<<<<KeyX, IntV(1)>>, <<IntV(2), x>>, <<UStr(<<98>>), IntV(3)>>>>) :
            x \in SmallAtoms}

RECURSIVE Nested(_)
Nested(d) ==
  IF d = 0 THEN SmallAtoms
  ELSE Nested(d - 1) \cup Containers(Nested(d - 1) \ SmallAtoms)

\* the values without instances
PlainValues == Atoms \cup Containers(SmallAtoms) \cup Nested(MaxDepth + 1)

Ids == 1..MaxObjs

NextId(i) == (i % MaxObjs) + 1

Instance(cls, header, payload, attrs, repl) ==
  [cls |-> cls, header |-> header, payload |-> payload, attrs |-> attrs,
   repl |-> repl]

DefaultObject(header, payload) ==
  Instance("DefaultObject", header, payload, <<>>, Absent)

\* what instance i may be: generic objects with a header and a payload that
\* may hold the next instance or i itself, instances of the registered
\* classes, and an instance of a class that is not registered
InstancesAt(i) ==
  {DefaultObject(StrA, MapV(<<>>)),
   DefaultObject(UStr(<<97, 65411>>), MapV(<<<<KeyY, IntV(2)>>, <<KeyX, IntV(1)>>>>)),
   DefaultObject(StrA, MapV(<<<<KeyX, Obj(NextId(i))>>>>)),
   DefaultObject(Obj(NextId(i)), MapV(<<<<KeyX, IntV(1)>>>>)),
   DefaultObject(Obj(i), MapV(<<>>)),
   DefaultObject(NullV, MapV(<<<<KeyX, Obj(i)>>>>)),
   DefaultObject(Arr(<<IntV(1)>>), MapV(<<>>)),
   Instance("Point", Absent, Absent, <<<<NameY, IntV(2)>>, <<NameX, IntV(1)>>>>, Absent),
   Instance("Point", Absent, Absent,
            <<<<NameX, Obj(NextId(i))>>, <<NameY, IntV(2)>>>>, Absent),
   Instance("Proxy", Absent, Absent, <<<<NameX, IntV(7)>>>>, Obj(NextId(i))),
   Instance("Proxy", Absent, Absent, <<<<NameX, IntV(7)>>, <<NameY, IntV(8)>>>>,
            Obj(NextId(i))),
   Instance("Plain", Absent, Absent, <<>>, Absent)}

Heaps == {h \in [Ids -> UNION {InstancesAt(i) : i \in Ids}] :
            \A i \in Ids : h[i] \in InstancesAt(i)}

\* the values over a heap of instances
ObjectValues ==
  {Obj(1), Arr(<<Obj(1), Obj(1)>>), Arr(<<Obj(1), Obj(2), Obj(1)>>)}

\* the heap the values without instances are encoded over
NoHeap == [i \in Ids |-> DefaultObject(NullV, MapV(<<>>))]

Perms(n) == {f \in [1..n -> 1..n] : \A i, j \in 1..n : f[i] = f[j] => i = j}

Permuted(s) == {[i \in 1..Len(s) |-> s[f[i]]] : f \in Perms(Len(s))}

\* the same dict built in every insertion order
ReorderedValue(v) ==
  IF v.k = "map" THEN {MapV(p) : p \in Permuted(v.p)} ELSE {v}

\* the same instance with its payload and attributes set in every order
ReorderedInstance(inst) ==
  {[inst EXCEPT !.payload = p, !.attrs = a] :
     p \in ReorderedValue(inst.payload), a \in Permuted(inst.attrs)}

ReorderedHeap(h) ==
  {g \in [Ids -> UNION {ReorderedInstance(h[i]) : i \in Ids}] :
     \A i \in Ids : g[i] \in ReorderedInstance(h[i])}

(***************************************************************************)
(* One session of the codec: Encoder.encode of the value (and of the same  *)
(* value built in another insertion order), then Decoder.decode of the     *)
(* bytes, or of the bytes without their last byte.                         *)
(***************************************************************************)
InitCodec ==
  /\ cpc = "start"
  /\ \/ /\ heap = NoHeap
        /\ root \in PlainValues
        /\ encName \in EncodingNames
     \/ /\ heap \in Heaps
        /\ root \in ObjectValues
        /\ encName = "UTF-8"
  /\ root2 \in [h : ReorderedHeap(heap), v : ReorderedValue(root)]
  /\ out = NewOutput
  /\ out2 = NewOutput
  /\ inp = NewInput(<<>>)
  /\ inpCut = NewInput(<<>>)

IdleCodec ==
  /\ cpc = "idle"
  /\ heap = NoHeap
  /\ root = NullV
  /\ root2 = [h |-> NoHeap, v |-> NullV]
  /\ encName = "UTF-8"
  /\ out = NewOutput
  /\ out2 = NewOutput
  /\ inp = NewInput(<<>>)
  /\ inpCut = NewInput(<<>>)

\* Encoder.encode(root), and Encoder.encode of the reordered value
Encode ==
  /\ cpc = "start"
  /\ out' = EncoderEncode(heap, encName, root)
  /\ out2' = EncoderEncode(root2.h, encName, root2.v)
  /\ cpc' = "encoded"
  /\ UNCHANGED <<heap, root, root2, encName, inp, inpCut, vars_varint, vars_socket,
                 vars_registry>>

\* Decoder().decode(bytes) on the bytes Encoder.encode returned
Decode ==
  /\ cpc = "encoded"
  /\ out.err = NoErr
  /\ inp' = DecoderDecode(DecoderConfig, out.bytes)
  /\ cpc' = "decoded"
  /\ UNCHANGED <<heap, root, root2, encName, out, out2, inpCut, vars_varint,
                 vars_socket, vars_registry>>

\* Decoder().decode(bytes[:-1])
DecodeTruncated ==
  /\ cpc = "encoded"
  /\ out.err = NoErr
  /\ inpCut' = DecoderDecode(DecoderConfig, SubSeq(out.bytes, 1, Len(out.bytes) - 1))
  /\ cpc' = "truncated"
  /\ UNCHANGED <<heap, root, root2, encName, out, out2, inp, vars_varint,
                 vars_socket, vars_registry>>

\* bytes no Encoder.encode call returned: a reference with no object before
\* it, an object whose header is a reference to the object itself, written
\* with the offset 0 and with the offset 1, an object whose header is an
\* object whose header refers to the outer one, and a list of an object and
\* a reference to it
ForeignInputs ==
  {<<_REFERENCE_TAG, 0>>,
   <<_OBJECT_TAG, 0, _REFERENCE_TAG, 0>>,
   <<_OBJECT_TAG, 0, _REFERENCE_TAG, 1>>,
   <<_OBJECT_TAG, 0, _OBJECT_TAG, 0, _REFERENCE_TAG, 1>>,
   <<_ARRAY_TAG, 2, _OBJECT_TAG, 0, _NULL_TAG, _REFERENCE_TAG, 0>>}

\* Decoder().decode(data) on bytes that come from elsewhere
DecodeForeign ==
  /\ cpc = "start"
  /\ \E data \in ForeignInputs : inp' = DecoderDecode(DecoderConfig, data)
  /\ cpc' = "foreign"
  /\ UNCHANGED <<heap, root, root2, encName, out, out2, inpCut, vars_varint,
                 vars_socket, vars_registry>>

NextCodec == Encode \/ Decode \/ DecodeTruncated \/ DecodeForeign

(***************************************************************************)
(* The container (container.py).  An OutputSocket appends instructions to  *)
(* its file; a call that raises leaves what it had written before the      *)
(* exception.  An InputSocket is then opened on the bytes written so far   *)
(* and polled until process_next_instruction stops returning True.         *)
(***************************************************************************)
_SET_DEFAULT_STRING_ENCODING == 1

_SEND_VALUE == 2

\* the bytes of _write_header: "pt\xf6n\0\0\0\0"
Preamble == <<112, 116, 246, 110, 0, 0, 0, 0>>

\* the number of OutputSocket calls of one session
MaxCalls == 3

\* the objects of the sending application: a generic object, and instances
\* of a class that is not registered
SocketHeap ==
  [i \in Ids |-> IF i = 1 THEN DefaultObject(StrA, MapV(<<<<KeyX, IntV(1)>>>>))
                 ELSE Instance("Plain", Absent, Absent, <<>>, Absent)]

\* the values handed to send_value
SendValues ==
  {IntV(1), Arr(<<IntV(1), IntV(2), IntV(3)>>), MapV(<<<<StrA, IntV(3)>>>>),
   UStr(<<233>>), Obj(1), Arr(<<Obj(1), Obj(1)>>), Obj(2)}

\* the stream ids handed to send_value: the root stream, and two ids no
\* stream is registered under, an int and a list
StreamIds == {NullV, IntV(7), Arr(<<IntV(7)>>)}

\* the names handed to set_default_string_encoding: "UTF-8", "x", u"\xe9"
EncodingArgs == {BStr(<<85, 84, 70, 45, 56>>), BStr(<<120>>), UStr(<<233>>)}

\* the writer during one call: [file, cursor, err]
WriteByte(w, byte) ==
  IF w.err # NoErr THEN w
  ELSE [w EXCEPT !.file = Append(@, byte), !.cursor = @ + 1]

WriteBlob(w, bytes) ==
  IF w.err # NoErr THEN w
  ELSE [w EXCEPT !.file = @ \o bytes, !.cursor = @ + Len(bytes)]

\* the two _write_blob calls of _write_value, on what Encoder.encode gave
WriteData(w, data) ==
  IF w.err # NoErr THEN w
  ELSE IF data.err # NoErr THEN [w EXCEPT !.err = data.err]
  ELSE WriteBlob(WriteBlob(w, EncodeUint32(BigOf(Len(data.bytes))).bytes),
                 data.bytes)

\* _write_value: the block of a fresh Encoder's bytes behind their length
WriteValue(w, value) ==
  WriteData(w, EncoderEncode(SocketHeap, FALLBACK_ENCODING_NAME, value))

RECURSIVE WritePaddingTo4(_)
WritePaddingTo4(w) ==
  IF w.err # NoErr \/ w.cursor % 4 = 0 THEN w
  ELSE WritePaddingTo4(WriteByte(w, 0))

\* _write_padding
RECURSIVE WritePadding(_)
WritePadding(w) ==
  IF w.err # NoErr \/ w.cursor % 8 = 0 THEN w
  ELSE WritePadding(WriteByte(w, 0))

\* codecs.encode(value, "ascii")
AsciiEncode(value) == [ok |-> AllBelow(value.s, 128), bytes |-> value.s]

\* what a call leaves behind in olast
Ended(op, body, padded) ==
  [op |-> op, ok |-> padded.err = NoErr, err |-> padded.err,
   pad |-> Len(padded.file) - Len(body.file),
   calls |-> olast.calls + 1,
   failed |-> olast.failed + (IF padded.err = NoErr THEN 0 ELSE 1)]

\* OutputSocket(file): the header is written, the cursor stays 0
InitSocket ==
  /\ spc = "writing"
  /\ file = Preamble
  /\ ocursor = 0
  /\ oencoding = NullV
  /\ olast = [op |-> "__init__", ok |-> TRUE, err |-> NoErr, pad |-> 0,
              calls |-> 0, failed |-> 0]
  /\ sent = <<>>
  /\ rpos = 0
  /\ icursor = 0
  /\ iencoding = NullV
  /\ streams = [id \in {} |-> <<>>]
  /\ ilast = "none"

IdleSocket ==
  /\ spc = "idle"
  /\ file = <<>>
  /\ ocursor = 0
  /\ oencoding = NullV
  /\ olast = [op |-> "none", ok |-> TRUE, err |-> NoErr, pad |-> 0,
              calls |-> 0, failed |-> 0]
  /\ sent = <<>>
  /\ rpos = 0
  /\ icursor = 0
  /\ iencoding = NullV
  /\ streams = [id \in {} |-> <<>>]
  /\ ilast = "none"

\* the end of an OutputSocket call: what it wrote, and olast
CallEnds(op, body, padded) ==
  /\ file' = padded.file
  /\ ocursor' = padded.cursor
  /\ olast' = Ended(op, body, padded)

\* the opcode byte of an instruction
WriteOpcode(opcode) ==
  WriteByte([file |-> file, cursor |-> ocursor, err |-> NoErr], opcode)

\* the bytearray set_default_string_encoding writes: the write raises when
\* the name is not ASCII
WriteName(w, ascii) ==
  IF ascii.ok THEN WriteValue(w, BlobV(ascii.bytes))
  ELSE [w EXCEPT !.err = "UnicodeEncodeError"]

\* _write_padding at the end of a call
Padded(op, body) == CallEnds(op, body, WritePadding(body))

\* OutputSocket.set_default_string_encoding(value)
SetDefaultStringEncoding ==
  /\ spc = "writing"
  /\ olast.calls < MaxCalls
  /\ \E value \in EncodingArgs :
       /\ oencoding' = value
       /\ Padded("set_default_string_encoding",
                 WriteName(WriteOpcode(_SET_DEFAULT_STRING_ENCODING),
                           AsciiEncode(value)))
  /\ UNCHANGED <<spc, sent, rpos, icursor, iencoding, streams, ilast,
                 vars_varint, vars_codec,
                 vars_registry>>

\* OutputSocket.send_value(value, stream_id)
SendValue ==
  /\ spc = "writing"
  /\ olast.calls < MaxCalls
  /\ \E value \in SendValues, stream_id \in StreamIds :
       /\ Padded("send_value",
                 WriteValue(WriteValue(WriteOpcode(_SEND_VALUE), stream_id), value))
       /\ sent' = IF olast'.ok /\ stream_id = NullV THEN Append(sent, value)
                  ELSE sent
  /\ UNCHANGED <<spc, oencoding, rpos, icursor, iencoding, streams, ilast,
                 vars_varint, vars_codec,
                 vars_registry>>

(***************************************************************************)
(* InputSocket.  The reader during one call is [pos, cursor, err]: pos is  *)
(* the position of its file, cursor is InputSocket.cursor.                 *)
(***************************************************************************)
\* _get_byte: [r, none, byte]; None at the end of the file
SockGetByte(f, r) ==
  IF r.pos < Len(f)
    THEN [r |-> [r EXCEPT !.pos = @ + 1, !.cursor = @ + 1], none |-> FALSE,
          byte |-> f[r.pos + 1]]
    ELSE [r |-> r, none |-> TRUE, byte |-> 0]

\* _read_blob(count): [r, bytes]; file.read returns what is left when the
\* file holds fewer than count bytes
SockReadBlob(f, r, count) ==
  LET last == IF r.pos + count > Len(f) THEN Len(f) ELSE r.pos + count
  IN [r |-> [r EXCEPT !.pos = last, !.cursor = @ + count],
      bytes |-> SubSeq(f, r.pos + 1, last)]

\* _read_padding: at the end of the file _get_byte returns None and leaves
\* the cursor alone, so the loop never ends when the cursor is not aligned
RECURSIVE SockReadPadding(_, _)
SockReadPadding(f, r) ==
  IF r.err # NoErr \/ r.cursor % 8 = 0 THEN r
  ELSE IF SockGetByte(f, r).none THEN [r EXCEPT !.err = "diverges"]
  ELSE SockReadPadding(f, SockGetByte(f, r).r)

\* _read_block: [r, bytes]; decode_uint32_from(self) computes None & 0x7F
\* at the end of the file
SockReadBlock(f, r) ==
  LET size == DecodeUint32From(f, r.pos)
      sized == [r EXCEPT !.pos = size.cursor, !.cursor = @ + (size.cursor - r.pos)]
      count == IF BigGe(size.value, 1073741824) THEN 1073741824
               ELSE BigToInt(size.value)
  IN IF r.err # NoErr THEN [r |-> r, bytes |-> <<>>]
     ELSE IF ~size.ok THEN [r |-> [sized EXCEPT !.err = "TypeError"], bytes |-> <<>>]
     ELSE SockReadBlob(f, sized, count)

\* DataInputStream(block, None, None).read_object(): [r, st]
BlockReadObject(r, block) ==
  LET st == DecoderDecode(BlockConfig, block)
  IN IF r.err # NoErr THEN [r |-> r, st |-> NewInput(<<>>)]
     ELSE [r |-> [r EXCEPT !.err = st.err], st |-> st]

\* _read_value: [r, st]
SockReadValue(f, r) ==
  LET block == SockReadBlock(f, r)
  IN BlockReadObject(block.r, block.bytes)

\* str(value) of the value of a SET_DEFAULT_STRING_ENCODING block: the bytes
\* of a bytearray or a str, the ASCII bytes of a unicode, "None" for None;
\* the text of any other value is kept as "?"
PyStr(value) ==
  IF value.k \in {"blob", "bstr"} THEN [ok |-> TRUE, value |-> BStr(value.s)]
  ELSE IF value.k = "ustr"
    THEN [ok |-> AllBelow(value.s, 128), value |-> BStr(value.s)]
  ELSE IF value.k = "null" THEN [ok |-> TRUE, value |-> BStr(<<78, 111, 110, 101>>)]
  ELSE [ok |-> TRUE, value |-> BStr(<<63>>)]

\* self.streams.get(stream_id, None): the registered ids equal to stream_id
StreamsGet(stream_id) == {id \in DOMAIN streams : PyKeyEq(id, stream_id)}

\* what process_next_instruction returned, or how it ended
Outcome(r) == IF r.err = NoErr THEN "True" ELSE r.err

\* InputSocket(file).init() on the bytes written so far
InputInit ==
  /\ spc = "writing"
  /\ LET header == SockReadBlob(file, [pos |-> 0, cursor |-> 0, err |-> NoErr], 8)
     IN /\ rpos' = header.r.pos
        /\ icursor' = header.r.cursor
        /\ IF header.bytes = Preamble
             THEN /\ streams' = [id \in {NullV} |-> <<>>]
                  /\ ilast' = "True"
                  /\ spc' = "reading"
             ELSE /\ streams' = streams
                  /\ ilast' = "False"
                  /\ spc' = "closed"
  /\ UNCHANGED <<file, ocursor, oencoding, olast, sent, iencoding,
                 vars_varint, vars_codec,
                 vars_registry>>

\* the end of a process_next_instruction call
InstructionEnds(r, encoding, received) ==
  /\ rpos' = r.pos
  /\ icursor' = r.cursor
  /\ iencoding' = encoding
  /\ streams' = received
  /\ ilast' = Outcome(r)
  /\ spc' = IF r.err = NoErr THEN "reading" ELSE "closed"

\* self.default_encoding = str(value): [r, name]
DefaultEncodingOf(value, name) ==
  [r |-> IF value.r.err = NoErr /\ ~name.ok
           THEN [value.r EXCEPT !.err = "UnicodeEncodeError"] ELSE value.r,
   name |-> IF value.r.err = NoErr /\ name.ok THEN name.value ELSE iencoding]

\* opcode _SET_DEFAULT_STRING_ENCODING, from the assignment on
SetEncoding(named) ==
  InstructionEnds(SockReadPadding(file, named.r), named.name, streams)

\* the streams after stream.receive_block(block) put the value in the queue;
\* with the value v over its heap h the queue's history keeps, which the
\* code does not, the block and the default_encoding of the socket then
Received(stream, received) ==
  IF received.r.err = NoErr /\ stream # {}
    THEN [id \in DOMAIN streams |->
            IF id \in stream
              THEN Append(streams[id],
                          [v |-> received.st.val, h |-> received.st.heap,
                           enc |-> iencoding, block |-> received.st.bytes])
              ELSE streams[id]]
    ELSE streams

\* opcode _SEND_VALUE, from "if not stream is None" on
Deliver(stream, received) ==
  InstructionEnds(received.r, iencoding, Received(stream, received))

\* opcode _SEND_VALUE, from self.streams.get(stream_id, None) on; a stream
\* id that is not hashable makes the lookup raise
Lookup(stream_id, block, padded) ==
  IF padded.err # NoErr THEN Deliver({}, [r |-> padded, st |-> NewInput(<<>>)])
  ELSE IF ~Hashable(stream_id)
    THEN Deliver({}, [r |-> [padded EXCEPT !.err = "TypeError"],
                      st |-> NewInput(<<>>)])
  ELSE IF StreamsGet(stream_id) = {}
    THEN Deliver({}, [r |-> padded, st |-> NewInput(<<>>)])
  ELSE Deliver(StreamsGet(stream_id), BlockReadObject(padded, block))

\* opcode _SEND_VALUE, from the second _read_block on
SendBlock(stream_id, block) ==
  Lookup(stream_id, block.bytes, SockReadPadding(file, block.r))

\* InputSocket.process_next_instruction()
ProcessNextInstruction ==
  /\ spc = "reading"
  /\ \E opcode \in {SockGetByte(file, [pos |-> rpos, cursor |-> icursor,
                                       err |-> NoErr])} :
       IF ~opcode.none /\ opcode.byte = _SET_DEFAULT_STRING_ENCODING
         THEN \E value \in {SockReadValue(file, opcode.r)} :
                SetEncoding(DefaultEncodingOf(value, PyStr(value.st.val)))
       ELSE IF ~opcode.none /\ opcode.byte = _SEND_VALUE
         THEN \E stream_id \in {SockReadValue(file, opcode.r)} :
                SendBlock(stream_id.st.val, SockReadBlock(file, stream_id.r))
       ELSE /\ ilast' = "False"
            /\ spc' = "closed"
            /\ rpos' = opcode.r.pos
            /\ icursor' = opcode.r.cursor
            /\ UNCHANGED <<iencoding, streams>>
  /\ UNCHANGED <<file, ocursor, oencoding, olast, sent, vars_varint, vars_codec,
                 vars_registry>>

NextSocket ==
  SetDefaultStringEncoding \/ SendValue \/ InputInit \/ ProcessNextInstruction

(***************************************************************************)
(* ClassRegistry.  A ClassMetaInfo is named by the class it was made for,  *)
(* so class_to_info is the set of the registered classes and a cache entry *)
(* is the class of the info it holds, or "None".  The classes are those of *)
(* an application: A(object), B(A), E(object), D(B, E).                    *)
(***************************************************************************)
Classes == {"object", "A", "B", "D", "E"}

\* klass.__bases__, in the order of the declaration
Bases ==
  [klass \in Classes |->
     IF klass = "A" \/ klass = "E" THEN <<"object">>
     ELSE IF klass = "B" THEN <<"A">>
     ELSE IF klass = "D" THEN <<"B", "E">>
     ELSE <<>>]

\* the number of calls made on one registry
MaxRegistryCalls == 4

\* self.nearest_cache[klass] = info
CachePut(cache, klass, info) ==
  [x \in (DOMAIN cache) \cup {klass} |-> IF x = klass THEN info ELSE cache[x]]

RECURSIVE GetNearestMetaInfo(_, _, _)
RECURSIVE NearestOfBases(_, _, _, _)

\* the body of the loop "for base in klass.__bases__", on what the
\* recursive call returned
NearestFound(registered, klass, i, nearest) ==
  IF nearest.info # "None"
    THEN [cache |-> CachePut(nearest.cache, klass, nearest.info),
          info |-> nearest.info]
    ELSE NearestOfBases(registered, nearest.cache, klass, i + 1)

\* the loop from the i-th base on; the cache holds None for klass
NearestOfBases(registered, cache, klass, i) ==
  IF i > Len(Bases[klass]) THEN [cache |-> cache, info |-> cache[klass]]
  ELSE NearestFound(registered, klass, i,
         GetNearestMetaInfo(registered, cache, Bases[klass][i]))

\* get_nearest_meta_info(klass): [cache, info]
GetNearestMetaInfo(registered, cache, klass) ==
  IF klass \in DOMAIN cache THEN [cache |-> cache, info |-> cache[klass]]
  ELSE IF klass \in registered
    THEN [cache |-> CachePut(cache, klass, klass), info |-> klass]
  ELSE NearestOfBases(registered, CachePut(cache, klass, "None"), klass, 1)

\* ClassRegistry()
InitRegistry ==
  /\ class_to_info = {}
  /\ nearest_cache = [x \in {} |-> "None"]
  /\ rlast = [op |-> "__init__", klass |-> "None", info |-> "None", calls |-> 0]

IdleRegistry ==
  /\ class_to_info = {}
  /\ nearest_cache = [x \in {} |-> "None"]
  /\ rlast = [op |-> "none", klass |-> "None", info |-> "None", calls |-> 0]

\* ensure_meta_info(klass), as @serializable calls it on a class
EnsureMetaInfo ==
  /\ rlast.op # "none"
  /\ rlast.calls < MaxRegistryCalls
  /\ \E klass \in Classes \ {"object"} :
       /\ class_to_info' = class_to_info \cup {klass}
       /\ rlast' = [op |-> "ensure_meta_info", klass |-> klass, info |-> klass,
                    calls |-> rlast.calls + 1]
  /\ UNCHANGED <<nearest_cache, vars_varint, vars_codec, vars_socket>>

\* what a get_nearest_meta_info call leaves behind
Looked(klass, nearest) ==
  /\ nearest_cache' = nearest.cache
  /\ rlast' = [op |-> "get_nearest_meta_info", klass |-> klass,
               info |-> nearest.info, calls |-> rlast.calls + 1]

\* get_nearest_meta_info(klass)
LookupNearest ==
  /\ rlast.op # "none"
  /\ rlast.calls < MaxRegistryCalls
  /\ \E klass \in Classes :
       Looked(klass, GetNearestMetaInfo(class_to_info, nearest_cache, klass))
  /\ UNCHANGED <<class_to_info, vars_varint, vars_codec, vars_socket>>

NextRegistry == EnsureMetaInfo \/ LookupNearest

\* the varint routines alone, the codec alone, the container alone, the
\* registry alone
StartVarint == InitVarint /\ IdleCodec /\ IdleSocket /\ IdleRegistry

StartCodec == IdleVarint /\ InitCodec /\ IdleSocket /\ IdleRegistry

StartSocket == IdleVarint /\ IdleCodec /\ InitSocket /\ IdleRegistry

StartRegistry == IdleVarint /\ IdleCodec /\ IdleSocket /\ InitRegistry

SpecVarint == StartVarint /\ [][NextVarint]_vars

SpecCodec == StartCodec /\ [][NextCodec]_vars

SpecSocket == StartSocket /\ [][NextSocket]_vars

SpecRegistry == StartRegistry /\ [][NextRegistry]_vars

(***************************************************************************)
(* Claims about the varint routines (SpecVarint).                          *)
(***************************************************************************)

\* every byte but the last has its high bit set, the last has not
ContinuationShape(bytes) ==
  /\ Len(bytes) >= 1
  /\ \A i \in 1..Len(bytes) : (bytes[i] >= 128) <=> (i < Len(bytes))

\* C2: for every n in [0, 2^32), decode_uint32_from on the bytes _encode_uint32
\* wrote for n returns n, having read exactly those bytes; every byte but the
\* last has its high bit set; and two distinct values never get the same bytes.
VarintBijective ==
  (vkind = "uint32" /\ vpc \in {"written", "read"}) =>
    /\ vbytesA.ok /\ vbytesB.ok
    /\ ContinuationShape(vbytesA.bytes)
    /\ Len(vbytesA.bytes) <= 5
    /\ (vbytesA.bytes = vbytesB.bytes => va = vb)
    /\ vpc = "read" =>
         vread.ok /\ vread.value = va /\ vread.cursor = Len(vbytesA.bytes)

\* the largest value, 2^32 - 1, read back from its five bytes, beside the
\* bytes of a different value
VarintBijectiveWitness ==
  /\ vkind = "uint32"
  /\ vpc = "read"
  /\ va = [hi |-> 65535, lo |-> 65535]
  /\ vb = [hi |-> 65535, lo |-> 65534]
  /\ Len(vbytesA.bytes) = 5
  /\ vread.value = va

\* C3: for every int32 n the zigzag value handed to _encode_uint32 is in
\* [0, 2^32), _decode_int32 on the bytes int32 wrote for n returns n, and the
\* values -64..63 are written as one byte.
ZigZagRoundTrip ==
  (vkind = "int32" /\ vpc \in {"written", "read"}) =>
    /\ ~BigIsNeg(ZigZag(va)) /\ BigLess(ZigZag(va), Two32)
    /\ vbytesA.ok
    /\ (~BigLess(va, BigOf(-64)) /\ BigLess(va, BigOf(64))) => Len(vbytesA.bytes) = 1
    /\ vpc = "read" =>
         vread.ok /\ vread.value = va /\ vread.cursor = Len(vbytesA.bytes)

\* -1 written as the single byte 1 and read back
ZigZagRoundTripWitness ==
  /\ vkind = "int32"
  /\ vpc = "read"
  /\ va = BigOf(-1)
  /\ vbytesA.bytes = <<1>>
  /\ vread.value = BigOf(-1)

(***************************************************************************)
(* Claims about one encode / decode session (SpecCodec).                   *)
(***************************************************************************)
Encoded == cpc \in {"encoded", "decoded", "truncated"}

\* the values the round trip is claimed for: the primitives, lists and dicts
\* of them, and generic objects (DefaultObject) that reach no instance twice
\* on a path
Representable(h, v) ==
  /\ Acyclic(h, v)
  /\ \A i \in Reachable(h, v) : h[i].cls = "DefaultObject" /\ h[i].payload.k = "map"

\* C1: for every representable value v, Decoder.decode(Encoder.encode(v)) is
\* structurally equal to v and the decoder consumes exactly the bytes the
\* encoder produced.
RoundTrip ==
  Representable(heap, root) =>
    /\ Encoded => out.err = NoErr
    /\ cpc = "decoded" =>
         /\ inp.err = NoErr
         /\ inp.cursor = Len(out.bytes)
         /\ ValEq(heap, root, inp.heap, inp.val, MaxObjs + 1)

\* the event of out.log in which instance id was emitted as an object
ObjectEvents(log, id) == {i \in 1..Len(log) : log[i].t = _OBJECT_TAG /\ log[i].id = id}

\* C4: within one encode call every instance that occurs is emitted once as a
\* tag-7 object and every later occurrence as a tag-8 reference whose offset is
\* currentOffset - recordedOffset - 1; the decoder resolves every such
\* reference to the slot of the object's tag-7 occurrence and returns the
\* instance stored there.
SharedOnce ==
  (Encoded /\ out.err = NoErr) =>
    /\ \A i \in 1..Len(out.log) :
         /\ Cardinality(ObjectEvents(out.log, out.log[i].id)) = 1
         /\ out.log[i].t = _REFERENCE_TAG =>
              \E j \in ObjectEvents(out.log, out.log[i].id) :
                /\ j < i
                /\ out.log[i].n = out.log[i].at - out.log[j].at - 1
    /\ cpc = "decoded" =>
         \A i \in 1..Len(inp.log) :
           inp.log[i].t = _REFERENCE_TAG =>
             /\ out.log[i].t = _REFERENCE_TAG
             /\ inp.log[i].inst
             /\ \E j \in ObjectEvents(out.log, out.log[i].id) :
                  inp.log[i].slot = out.log[j].at

\* C5: two dicts, or two objects' field sets, that hold the same pairs built in
\* different insertion orders are encoded to the same bytes.
CanonicalOrder ==
  Encoded => (out.err = out2.err /\ out.bytes = out2.bytes)

\* a dict of three pairs and the same dict built in another order, both encoded
CanonicalOrderWitness ==
  /\ cpc = "encoded"
  /\ root.k = "map"
  /\ Len(root.p) = 3
  /\ root2.v # root
  /\ out.err = NoErr
  /\ out.bytes = out2.bytes
  /\ Len(out.bytes) > 3

\* C8: Decoder.decode of a buffer Encoder.encode produced, without its last
\* byte, fails with an error.
TruncationFails ==
  cpc = "truncated" => inpCut.err # NoErr

\* a list of two instances, the second a reference, cut in the reference
TruncationFailsWitness ==
  /\ cpc = "truncated"
  /\ root = Arr(<<Obj(1), Obj(1)>>)
  /\ Len(out.bytes) > 4
  /\ out.bytes[Len(out.bytes) - 1] = _REFERENCE_TAG
  /\ inpCut.err = "IndexError"
  /\ inpCut.cursor = Len(out.bytes) - 1

\* C9: an encode call that comes back to an object while that object's header
\* is being written fails; no bytes are returned that hold a reference to the
\* object whose offset is not recorded yet.
HeaderCycleFails ==
  (Encoded /\ \E i \in 1..Len(out.log) :
                out.log[i].t = _REFERENCE_TAG /\ out.log[i].rec = -1)
    => out.err # NoErr

\* the instance a replaced object is encoded in place of
Fixpoint(h, id) == ResolveReplacement(h, Obj(id), Cardinality(DOMAIN h))

\* C10: when the replacements of an object o end at r # o, the tag-7 record
\* emitted for o carries the header and the fields r's meta info gives for r.
ReplacementEmitted ==
  Encoded =>
    \A i \in 1..Len(out.log) :
      LET e == out.log[i]
          r == Fixpoint(heap, e.id)
      IN (e.t = _OBJECT_TAG /\ r.err = NoErr /\ r.last # Obj(e.id)) =>
           /\ e.header = GetHeader(ClassToInfo[heap[r.last.id].cls], heap[r.last.id])
           /\ e.fields = GetPayload(ClassToInfo[heap[r.last.id].cls], heap[r.last.id])

\* the characters of a text all belong to the character set of an encoding
InCharset(name, cps) ==
  \A i \in 1..Len(cps) :
    IF name = "US-ASCII" THEN cps[i] < 128
    ELSE IF name = "Shift_JIS" THEN SjisOk(cps[i])
    ELSE TRUE

\* the bytes of a string written under tag 1, and under tag 13 with the
\* identifier of the fallback encoding
AsDefaultString(bytes) == <<_DEFAULT_STRING_TAG, Len(bytes)>> \o bytes

AsFallbackString(bytes) == <<_STRING_TAG, UTF_8, Len(bytes)>> \o bytes

DanglingFails ==
  (cpc \in {"decoded", "foreign"}) =>
    \A i \in 1..Len(inp.log) :
      (inp.log[i].t = _REFERENCE_TAG /\ ~inp.log[i].inst) => inp.err # NoErr

(***************************************************************************)
(* Claims about the container (SpecSocket).                                *)
(***************************************************************************)

\* what the root stream has received
Delivered == IF NullV \in DOMAIN streams THEN streams[NullV] ELSE <<>>

\* C6: when every OutputSocket call returned, an InputSocket opened on the
\* written bytes and polled until process_next_instruction returns False has
\* delivered to the root stream exactly the values sent to it, in order.
FramingRoundTrip ==
  (spc = "closed" /\ olast.failed = 0) =>
    /\ ilast = "False"
    /\ Len(Delivered) = Len(sent)
    /\ \A i \in 1..Len(sent) :
         ValEq(SocketHeap, sent[i], Delivered[i].h, Delivered[i].v, MaxObjs + 1)

\* C7: after the preamble and after every OutputSocket call that returned, the
\* number of bytes in the file is a multiple of 8, and the call ended with
\* fewer than 8 padding bytes, all of them zero.
Aligned ==
  (spc # "idle" /\ olast.ok) =>
    /\ Len(file) = 8 + ocursor
    /\ Len(file) % 8 = 0
    /\ olast.pad < 8
    /\ \A i \in (Len(file) - olast.pad + 1)..Len(file) : file[i] = 0

AlignedWitness ==
  /\ spc = "writing"
  /\ olast.op = "send_value"
  /\ olast.ok
  /\ olast.calls = 2
  /\ olast.pad = 4
  /\ oencoding = BStr(<<120>>)

\* the bytes of the names of ENUM_TO_NAME
NameText ==
  [n \in EncodingNames |->
     IF n = "US-ASCII" THEN <<85, 83, 45, 65, 83, 67, 73, 73>>
     ELSE IF n = "Shift_JIS" THEN <<83, 104, 105, 102, 116, 95, 74, 73, 83>>
     ELSE <<85, 84, 70, 45, 56>>]

\* the registered encodings a default_encoding names
NamedBy(encoding) ==
  {n \in EncodingNames :
     encoding.k \in {"bstr", "ustr"} /\ encoding.s = NameText[n]}

\* a block that holds one default-encoded string of fewer than 64 bytes
IsDefaultString(block) ==
  /\ Len(block) >= 2
  /\ block[1] = _DEFAULT_STRING_TAG
  /\ block[2] < 64
  /\ Len(block) = 2 + block[2]

\* the string the bytes of such a block are in the encoding name
TextOf(name, block) == CodecsDecode(name, SubSeq(block, 3, Len(block)))

\* C11: a default-encoded string delivered while the socket's default
\* encoding is E, set by an earlier SET_DEFAULT_STRING_ENCODING instruction,
\* is the text its bytes are in E.
DefaultEncodingUsed ==
  \A id \in DOMAIN streams : \A i \in 1..Len(streams[id]) :
    \A name \in NamedBy(streams[id][i].enc) :
      (IsDefaultString(streams[id][i].block)
         /\ TextOf(name, streams[id][i].block).ok) =>
        PyKeyEq(streams[id][i].v, UStr(TextOf(name, streams[id][i].block).cps))

\* the instruction the reader is at, as process_next_instruction reads a
\* SEND_VALUE: the opcode, the stream id, the payload block, the padding
AtOpcode == SockGetByte(file, [pos |-> rpos, cursor |-> icursor, err |-> NoErr])

AtStreamId == SockReadValue(file, AtOpcode.r)

AtBlock == SockReadBlock(file, AtStreamId.r)

AtPadding == SockReadPadding(file, AtBlock.r)

\* the reader is at a SEND_VALUE instruction the file holds the whole of
AtSendValue ==
  /\ spc = "reading"
  /\ ~AtOpcode.none
  /\ AtOpcode.byte = _SEND_VALUE
  /\ AtStreamId.r.err = NoErr
  /\ AtPadding.err = NoErr
  /\ AtPadding.cursor - AtPadding.pos = icursor - rpos

\* C12: process_next_instruction on a SEND_VALUE instruction whose stream id
\* no stream is registered under returns True, changes no stream and not the
\* default encoding, and leaves the reader behind the instruction's padding.
UnregisteredDropped ==
  [][(AtSendValue /\ StreamsGet(AtStreamId.st.val) = {}) =>
       /\ ilast' = "True"
       /\ streams' = streams
       /\ iencoding' = iencoding
       /\ rpos' = AtPadding.pos
       /\ icursor' = AtPadding.cursor
       /\ icursor' % 8 = 0]_vars

\* C13: every process_next_instruction call on the bytes of a file comes to
\* an end, whatever the file ends in the middle of.
InstructionTerminates == ilast # "diverges"

\* what Decoder().decode makes of the payload block the reader is at
AtDecoded == DecoderDecode(DecoderConfig, AtBlock.bytes)

\* the stream decoded an object no class is registered for the header of
IsGeneric(st) ==
  /\ st.err = NoErr
  /\ st.val.k = "obj"
  /\ st.heap[st.val.id].cls = "DefaultObject"

\* the last value of a queue is the value v over the heap h
LastIs(queue, v, h) ==
  /\ Len(queue) > 0
  /\ queue[Len(queue)].v = v
  /\ queue[Len(queue)].h = h

\* C14: a payload block that Decoder.decode reads as a generic object, with
\* the decoded header and payload, is delivered to its registered stream as
\* that object: process_next_instruction does not fail on it.
GenericDelivered ==
  [][(AtSendValue /\ StreamsGet(AtStreamId.st.val) # {} /\ IsGeneric(AtDecoded)) =>
       /\ ilast' = "True"
       /\ \A id \in StreamsGet(AtStreamId.st.val) :
            /\ Len(streams'[id]) = Len(streams[id]) + 1
            /\ LastIs(streams'[id], AtDecoded.val, AtDecoded.heap)]_vars

\* C16: a socket never holds a default encoding that is not registered, and
\* an OutputSocket.set_default_string_encoding call given one does not return.
EncodingChecked ==
  /\ oencoding # NullV => NamedBy(oencoding) # {}
  /\ iencoding # NullV => NamedBy(iencoding) # {}
  /\ (olast.op = "set_default_string_encoding" /\ NamedBy(oencoding) = {}) =>
       ~olast.ok

\* the payload block of the instruction a send_value call appended to the file
AppendedBlock ==
  SockReadBlock(file',
    SockReadBlock(file',
      SockGetByte(file', [pos |-> Len(file), cursor |-> Len(file),
                          err |-> NoErr]).r).r).bytes

\* every reference a decode read names a slot reserved earlier in that decode
OwnReferences(st) ==
  \A i \in 1..Len(st.log) :
    st.log[i].t = _REFERENCE_TAG =>
      st.log[i].slot >= 0 /\ st.log[i].slot < st.log[i].at /\ st.log[i].inst

\* the object events of a decode: the number of tag-7 objects read
ObjectsRead(st) == Cardinality({i \in 1..Len(st.log) : st.log[i].t = _OBJECT_TAG})

\* C17: the payload block of every send_value call stands alone, whatever
\* was sent before: an instance is written in full under tag 7 at its first
\* occurrence in the block, and a fresh Decoder.decode of the block resolves
\* every tag-8 reference to an object of the block.
FreshPerCall ==
  [][(spc = "writing" /\ Len(sent') = Len(sent) + 1) =>
       /\ sent'[Len(sent')].k = "obj" => AppendedBlock[1] = _OBJECT_TAG
       /\ DecoderDecode(DecoderConfig, AppendedBlock).err = NoErr
       /\ DecoderDecode(DecoderConfig, AppendedBlock).cursor = Len(AppendedBlock)
       /\ OwnReferences(DecoderDecode(DecoderConfig, AppendedBlock))
       /\ ObjectsRead(DecoderDecode(DecoderConfig, AppendedBlock))
            = Cardinality(Reachable(SocketHeap, sent'[Len(sent')]))]_vars

\* the same object was sent in two calls, and then twice in one list: each
\* call wrote it under tag 7, and the list's second element under tag 8
FreshPerCallWitness ==
  /\ spc = "writing"
  /\ olast.failed = 0
  /\ sent = <<Obj(1), Obj(1), Arr(<<Obj(1), Obj(1)>>)>>
  /\ file[13] = _OBJECT_TAG
  /\ file[29] = _OBJECT_TAG
  /\ SubSeq(file, 45, 46) = <<_ARRAY_TAG, 2>>
  /\ file[47] = _OBJECT_TAG
  /\ SubSeq(file, 57, 58) = <<_REFERENCE_TAG, 0>>

(***************************************************************************)
(* Claims about the class registry (SpecRegistry).                         *)
(***************************************************************************)
RECURSIVE Walk(_, _)
RECURSIVE WalkBases(_, _, _)

\* the first base, from the i-th on, that has a nearest descriptor
WalkBases(registered, klass, i) ==
  IF i > Len(Bases[klass]) THEN "None"
  ELSE IF Walk(registered, Bases[klass][i]) # "None"
    THEN Walk(registered, Bases[klass][i])
  ELSE WalkBases(registered, klass, i + 1)

\* the walk of the ancestor chain with no memory of earlier walks
Walk(registered, klass) ==
  IF klass \in registered THEN klass ELSE WalkBases(registered, klass, 1)

\* C19: whatever registrations and lookups came before, get_nearest_meta_info
\* returns what the walk of the ancestor chain finds at that moment.
NearestIsWalk ==
  rlast.op = "get_nearest_meta_info" =>
    rlast.info = Walk(class_to_info, rlast.klass)

====
